---- MODULE Spec2Model ----
(***************************************************************************)
(* Model of the Eka Care SDK client (ekacare_sdk/sdk.py) and of the CLI    *)
(* entry point (ekacare_sdk/cli.py): authentication at construction,       *)
(* document submission, and the two polling loops (process_and_wait and   *)
(* the wait loop of main).                                                  *)
(*                                                                         *)
(* A run is one call sequence: either a library caller that constructs     *)
(* EkaCareSDK and calls process_and_wait ("sdk"), or one invocation of     *)
(* main ("cli").  The remote server and the wall clock are the             *)
(* environment: every response and every request duration is chosen        *)
(* nondeterministically.                                                   *)
(***************************************************************************)
EXTENDS Integers, Sequences, FiniteSets, TLC

\* ---------------------------------------------------------------- bounds
MaxTimeout == 2
MaxPoll == 2
MaxFetchDelay == 1
\* cap on the number of fetches of one run (only reached when the clock
\* does not advance: poll_interval = 0 and instantaneous fetches)
MaxFetches == MaxTimeout + 2

\* time.time() at the start of the run (epoch seconds, never 0)
StartClock == 5

\* ---------------------------------------------------------------- values
SeqToSet(s) == {s[i] : i \in 1..Len(s)}

\* task values a caller may pass: the three allowed ones and two others
Tasks == {"smart", "pii", "both", "full", "Smart"}

\* argparse choices=["smart", "pii", "both"] of --task
CliTaskChoices == {"smart", "pii", "both"}

Tokens == {"tokA", "tokB"}
NoToken == "none"

DocIds == {"doc_1"}
NoDoc == "none"

\* a JSON value as Python's truthiness sees it: the key is missing, the
\* value is empty ({} / "" / null), or it is a non-empty structure
JsonVals == {"absent", "empty", "full"}

Statuses == {"pending", "completed", "failed"}

DataDicts ==
    {[present |-> TRUE, fhir |-> f, output |-> o] : f \in JsonVals, o \in JsonVals}
    \cup {[present |-> FALSE, fhir |-> "absent", output |-> "absent"]}

\* the decoded body of GET .../result
Payloads == [status : Statuses, data : DataDicts]

NoPayload ==
    [status |-> "none",
     data |-> [present |-> FALSE, fhir |-> "absent", output |-> "absent"]]

\* ------------------------------------------------------------- variables
VARIABLES
    args,           \* the call's arguments (argparse namespace / parameters)
    pc,             \* position of the run
    clock,          \* time.time()
    start_time,     \* start_time of the polling loop
    bearer_token,   \* EkaCareSDK._bearer_token
    session_auth,   \* Authorization header of EkaCareSDK._session
    sdk_bound,      \* whether the local name sdk of main is bound
    closed,         \* whether sdk.close() has run
    document_id,    \* document_id obtained from the submit response
    result,         \* result of the last get_document_result
    returned,       \* value returned by process_and_wait / printed by main
    outcome,        \* how the operation ended ("none" while running)
    ret,            \* return value of main pending its finally clause
    exit_code,      \* value main returned (NoExit while it has not)
    escaped,        \* exception that escaped main ("none" if none)
    requests,       \* HTTP requests issued so far, in order
    h               \* history of the environment (observations only)

vars == <<args, pc, clock, start_time, bearer_token, session_auth, sdk_bound,
          closed, document_id, result, returned, outcome, ret, exit_code,
          escaped, requests, h>>

NoExit == -1

Timeouts == -1..MaxTimeout
PollIntervals == 0..MaxPoll

SdkArgs ==
    {[mode |-> "sdk", task |-> t, file_exists |-> fe, timeout |-> to,
      poll_interval |-> pi, creds |-> TRUE, file_given |-> TRUE,
      no_wait |-> FALSE, doc_type |-> "lr"] :
        t \in Tasks, fe \in BOOLEAN, to \in Timeouts, pi \in PollIntervals}

CliArgs ==
    {[mode |-> "cli", task |-> t, file_exists |-> fe, timeout |-> to,
      poll_interval |-> pi, creds |-> cr, file_given |-> fg,
      no_wait |-> nw, doc_type |-> "lr"] :
        t \in CliTaskChoices, fe \in BOOLEAN, to \in Timeouts,
        pi \in PollIntervals, cr \in BOOLEAN, fg \in BOOLEAN,
        nw \in BOOLEAN}

InitHistory ==
    [wire |-> NoPayload,        \* payload the server sent last
     issued |-> NoToken,        \* token the server issued
     everComplete |-> FALSE,    \* a payload with both parts non-empty was sent
     everFailed |-> FALSE,      \* a payload with status "failed" was sent
     inTime |-> FALSE,          \* ... and arrived within timeout of loop start
     httpFailedAt |-> -1,       \* number of requests when an HTTP call failed
     fetchRaised |-> FALSE,     \* a fetch did not return a payload
     reqAtTimeout |-> -1,       \* number of requests when timeout was detected
     k |-> 0,                   \* payloads sent that were neither complete nor failed
     sleepLog |-> <<>>,         \* durations of the sleeps performed
     interrupted |-> FALSE]     \* a KeyboardInterrupt was delivered

Init ==
    /\ args \in SdkArgs \cup CliArgs
    /\ pc = IF args.mode = "cli" THEN "main" ELSE "construct"
    /\ clock = StartClock
    /\ start_time = 0
    /\ bearer_token = NoToken
    /\ session_auth = NoToken
    /\ sdk_bound = FALSE
    /\ closed = FALSE
    /\ document_id = NoDoc
    /\ result = NoPayload
    /\ returned = NoPayload
    /\ outcome = "none"
    /\ ret = NoExit
    /\ exit_code = NoExit
    /\ escaped = "none"
    /\ requests = <<>>
    /\ h = InitHistory

\* ------------------------------------------------- pure parts of sdk.py
\* a list that lets one more value through
valid_tasks_m == <<"smart", "pii", "both", "full">>

\* valid_tasks = ["smart", "pii", "both"]
valid_tasks == <<"smart", "pii", "both">>

\* the task is passed on as given, "both" included
BuildParams_m(doc_type, task) == << <<"dt", doc_type>>, <<"task", task>> >>

\* params = [("dt", doc_type)], then the task parameters
BuildParams(doc_type, task) ==
    IF task = "both"
    THEN << <<"dt", doc_type>>, <<"task", "smart">>, <<"task", "pii">> >>
    ELSE << <<"dt", doc_type>>, <<"task", task>> >>

\* the dict {} that result.get("data", {}) falls back to
EmptyDict == [present |-> TRUE, fhir |-> "absent", output |-> "absent"]

\* data = result.get("data", {})
GetData(r) == IF r.data.present THEN r.data ELSE EmptyDict

\* bool(d.get(key)): a missing key gives None, an empty value is falsy
Truthy(v) == v = "full"

\* completion decided by the status field as well
IsComplete_m(r) ==
    Truthy(GetData(r).fhir) /\ Truthy(GetData(r).output) /\ r.status = "completed"

\* process_and_wait: if data.get("fhir") and data.get("output")
IsComplete(r) == Truthy(GetData(r).fhir) /\ Truthy(GetData(r).output)

\* the status compared with the wrong spelling
IsFailed_m(r) == r.status = "FAILED"

\* process_and_wait: if result.get("status") == "failed"
IsFailed(r) == r.status = "failed"

\* the comparison off by one: >= for >
TimedOut_ge(now, start, timeout) == now - start >= timeout

\* the operands of the subtraction swapped
TimedOut_swapped(now, start, timeout) == start - now > timeout

\* process_and_wait: if time.time() - start_time > timeout
TimedOut(now, start, timeout) == now - start > timeout

\* process_and_wait: time.sleep(poll_interval)
SleepDuration(poll_interval) == poll_interval

\* the token stored but the session headers left as they were
UpdateHeaders_m(old, token) == old

\* _authenticate: self._session.headers.update({"Authorization": ...})
UpdateHeaders(old, token) == token

\* ------------------------------------------------- pure parts of cli.py
\* main: if data.get("fhir") and data.get("output")
CliIsComplete(r) == Truthy(GetData(r).fhir) /\ Truthy(GetData(r).output)

\* main: if result.get("status") == "failed"
CliIsFailed(r) == r.status = "failed"

\* the CLI's comparison off by one: >= for >
CliTimedOut_ge(now, start, timeout) == now - start >= timeout

\* main: elapsed = time.time() - start_time; if elapsed > args.timeout
CliTimedOut(now, start, timeout) == now - start > timeout

\* main: time.sleep(args.poll_interval)
CliSleepDuration(poll_interval) == poll_interval

\* ---------------------------------------------------------- environment
Interrupt == [kind |-> "interrupt", token |-> NoToken, document_id |-> NoDoc,
              payload |-> NoPayload, delay |-> 0]

\* KeyboardInterrupt is delivered to the interactive program only
Interrupts == IF args.mode = "cli" THEN {Interrupt} ELSE {}

HttpError == [kind |-> "http_error", token |-> NoToken, document_id |-> NoDoc,
              payload |-> NoPayload, delay |-> 0]

AuthResponses ==
    {[kind |-> "ok", token |-> t, document_id |-> NoDoc,
      payload |-> NoPayload, delay |-> 0] : t \in Tokens}
    \cup {[kind |-> "no_token", token |-> NoToken, document_id |-> NoDoc,
           payload |-> NoPayload, delay |-> 0]}
    \cup {HttpError} \cup Interrupts

SubmitResponses ==
    {[kind |-> "ok", token |-> NoToken, document_id |-> d,
      payload |-> NoPayload, delay |-> 0] : d \in DocIds}
    \cup {[kind |-> "no_id", token |-> NoToken, document_id |-> NoDoc,
           payload |-> NoPayload, delay |-> 0]}
    \cup {HttpError} \cup Interrupts

FetchResponses ==
    {[kind |-> "ok", token |-> NoToken, document_id |-> NoDoc,
      payload |-> p, delay |-> d] : p \in Payloads, d \in 0..MaxFetchDelay}
    \cup {HttpError} \cup Interrupts

\* the exception a response makes the HTTP call raise
ExcOf(resp) ==
    IF resp.kind = "interrupt" THEN "KeyboardInterrupt" ELSE "TransportError"

IsFetch(r) == r.kind = "fetch"
IsSubmit(r) == r.kind = "submit"
IsAuth(r) == r.kind = "auth"
NumFetches == Len(SelectSeq(requests, IsFetch))
NumSubmits == Len(SelectSeq(requests, IsSubmit))
NumAuths == Len(SelectSeq(requests, IsAuth))

\* a request sent through self._session carries the session's headers
Req(kind, params, doc) ==
    [kind |-> kind, auth |-> session_auth, params |-> params, doc |-> doc]

\* ------------------------------------------------- observations (history)
\* both parts of the payload are present and non-empty
BothNonEmpty(p) ==
    p.data.present /\ p.data.fhir = "full" /\ p.data.output = "full"

StatusFailed(p) == p.status = "failed"

ObserveCall(resp, nreq) ==
    [h EXCEPT !.httpFailedAt = IF resp.kind = "http_error" /\ @ = -1
                               THEN nreq ELSE @,
              !.interrupted = @ \/ resp.kind = "interrupt"]

ObserveFetch(resp, nreq, arrival) ==
    LET ok == resp.kind = "ok"
        p == resp.payload
        terminal == ok /\ (BothNonEmpty(p) \/ StatusFailed(p))
    IN [ObserveCall(resp, nreq) EXCEPT
            !.wire = IF ok THEN p ELSE @,
            !.everComplete = @ \/ (ok /\ BothNonEmpty(p)),
            !.everFailed = @ \/ (ok /\ StatusFailed(p)),
            !.inTime = @ \/ (terminal /\ arrival - start_time <= args.timeout),
            !.fetchRaised = @ \/ ~ok,
            !.k = IF ok /\ ~terminal THEN @ + 1 ELSE @]

\* ---------------------------------------------------------------- raising
\* An exception leaves the operation.  In main it is caught by
\* "except KeyboardInterrupt: return 130" or "except Exception: return 1",
\* and the finally clause runs next.
Raise(exc) ==
    /\ outcome' = exc
    /\ IF args.mode = "cli"
       THEN /\ ret' = IF exc = "KeyboardInterrupt" THEN 130 ELSE 1
            /\ pc' = "cli_finally"
       ELSE /\ ret' = ret
            /\ pc' = "done"

\* ---------------------------------------------------------------- actions
\* main, up to the try block: credentials and file checks
CLI_Main ==
    /\ pc = "main"
    /\ IF ~args.creds
       THEN /\ outcome' = "MissingCredentials"
            /\ exit_code' = 1
            /\ pc' = "done"
       ELSE IF ~args.file_given
       THEN /\ outcome' = "MissingFileArgument"
            /\ exit_code' = 1
            /\ pc' = "done"
       ELSE IF ~args.file_exists
       THEN /\ outcome' = "CliFileNotFound"
            /\ exit_code' = 1
            /\ pc' = "done"
       ELSE /\ pc' = "construct"
            /\ UNCHANGED <<outcome, exit_code>>
    /\ UNCHANGED <<args, clock, start_time, bearer_token, session_auth,
                   sdk_bound, closed, document_id, result, returned, ret,
                   escaped, requests, h>>

\* EkaCareSDK.__init__ and _authenticate
Construct ==
    /\ pc = "construct"
    /\ \E resp \in AuthResponses :
        /\ requests' = Append(requests, Req("auth", <<>>, NoDoc))
        /\ h' = [ObserveCall(resp, Len(requests) + 1) EXCEPT
                    !.issued = IF resp.kind = "ok" THEN resp.token ELSE @]
        /\ IF resp.kind = "ok"
           THEN /\ bearer_token' = resp.token
                /\ session_auth' = UpdateHeaders(session_auth, resp.token)
                /\ sdk_bound' = TRUE
                /\ pc' = "submit"
                /\ UNCHANGED <<outcome, ret>>
           ELSE /\ Raise(IF resp.kind = "interrupt" THEN "KeyboardInterrupt"
                         ELSE "AuthenticationError")
                /\ UNCHANGED <<bearer_token, session_auth, sdk_bound>>
    /\ UNCHANGED <<args, clock, start_time, closed, document_id, result,
                   returned, exit_code, escaped>>

\* process_document: the exception it raises before any request, if any
Validate(file_exists, task) ==
    IF ~file_exists THEN "FileNotFoundError"
    ELSE IF task \notin SeqToSet(valid_tasks) THEN "ValueError"
    ELSE "ok"

\* process_document(file_path, doc_type, task) answered by resp: the
\* requests it leaves behind and what it raises ("ok": it returns)
ProcessDocument(resp) ==
    LET v == Validate(args.file_exists, args.task) IN
    IF v # "ok"
    THEN [requests |-> requests, raised |-> v, h |-> h]
    ELSE [requests |-> Append(requests,
                         Req("submit", BuildParams(args.doc_type, args.task), NoDoc)),
          raised |-> IF resp.kind \in {"ok", "no_id"} THEN "ok" ELSE ExcOf(resp),
          h |-> ObserveCall(resp, Len(requests) + 1)]

\* process_and_wait up to the loop: submit, document_id, start_time
PW_Submit ==
    /\ pc = "submit"
    /\ args.mode = "sdk"
    /\ \E resp \in SubmitResponses :
        LET r == ProcessDocument(resp) IN
        /\ requests' = r.requests
        /\ h' = r.h
        /\ IF r.raised # "ok"
           THEN Raise(r.raised) /\ UNCHANGED <<document_id, start_time>>
           ELSE IF resp.kind = "no_id"
           THEN Raise("KeyError") /\ UNCHANGED <<document_id, start_time>>
           ELSE /\ document_id' = resp.document_id
                /\ start_time' = clock
                /\ pc' = "pw_check"
                /\ UNCHANGED <<outcome, ret>>
    /\ UNCHANGED <<args, clock, bearer_token, session_auth, sdk_bound, closed,
                   result, returned, exit_code, escaped>>

\* main: submit, document_id, then either the wait loop or --no-wait
CLI_Submit ==
    /\ pc = "submit"
    /\ args.mode = "cli"
    /\ \E resp \in SubmitResponses :
        LET r == ProcessDocument(resp) IN
        /\ requests' = r.requests
        /\ h' = r.h
        /\ IF r.raised # "ok"
           THEN Raise(r.raised) /\ UNCHANGED <<document_id, start_time>>
           ELSE IF resp.kind = "no_id"
           THEN Raise("KeyError") /\ UNCHANGED <<document_id, start_time>>
           ELSE IF args.no_wait
           THEN /\ document_id' = resp.document_id
                /\ outcome' = "submitted"
                /\ ret' = 0
                /\ pc' = "cli_finally"
                /\ UNCHANGED start_time
           ELSE /\ document_id' = resp.document_id
                /\ start_time' = clock
                /\ pc' = "cli_check"
                /\ UNCHANGED <<outcome, ret>>
    /\ UNCHANGED <<args, clock, bearer_token, session_auth, sdk_bound, closed,
                   result, returned, exit_code, escaped>>

\* get_document_result(document_id) answered by resp: one GET, no retry;
\* the decoded response is returned unchanged
GetDocumentResult(resp) ==
    /\ clock' = clock + resp.delay
    /\ result' = IF resp.kind = "ok" THEN resp.payload ELSE result
    /\ requests' = Append(requests, Req("fetch", <<>>, document_id))
    /\ h' = ObserveFetch(resp, Len(requests) + 1, clock + resp.delay)

\* process_and_wait, top of the loop: the timeout check
PW_CheckTimeout ==
    /\ pc = "pw_check"
    /\ IF TimedOut(clock, start_time, args.timeout)
       THEN /\ Raise("timedOut")
            /\ h' = [h EXCEPT !.reqAtTimeout = Len(requests)]
       ELSE /\ pc' = "pw_fetch"
            /\ UNCHANGED <<outcome, ret, h>>
    /\ UNCHANGED <<args, clock, start_time, bearer_token, session_auth,
                   sdk_bound, closed, document_id, result, returned,
                   exit_code, escaped, requests>>

\* a failed GET is tried again instead of propagating
PW_Fetch_retry ==
    /\ pc = "pw_fetch"
    /\ NumFetches < MaxFetches
    /\ \E resp \in FetchResponses :
        /\ GetDocumentResult(resp)
        /\ pc' = IF resp.kind = "ok" THEN "pw_inspect" ELSE "pw_fetch"
        /\ UNCHANGED <<outcome, ret>>
    /\ UNCHANGED <<args, start_time, bearer_token, session_auth, sdk_bound,
                   closed, document_id, returned, exit_code, escaped>>

\* process_and_wait: result = self.get_document_result(document_id)
PW_Fetch ==
    /\ pc = "pw_fetch"
    /\ NumFetches < MaxFetches
    /\ \E resp \in FetchResponses :
        /\ GetDocumentResult(resp)
        /\ IF resp.kind = "ok"
           THEN pc' = "pw_inspect" /\ UNCHANGED <<outcome, ret>>
           ELSE Raise(ExcOf(resp))
    /\ UNCHANGED <<args, start_time, bearer_token, session_auth, sdk_bound,
                   closed, document_id, returned, exit_code, escaped>>

\* the timeout tested after the failure check, in the iteration of the fetch
PW_Inspect_timeout_last ==
    /\ pc = "pw_inspect"
    /\ IF IsComplete(result)
       THEN /\ returned' = result
            /\ outcome' = "completed"
            /\ pc' = "done"
            /\ UNCHANGED <<ret, h>>
       ELSE IF IsFailed(result)
       THEN Raise("failed") /\ UNCHANGED <<returned, h>>
       ELSE IF TimedOut(clock, start_time, args.timeout)
       THEN /\ Raise("timedOut")
            /\ h' = [h EXCEPT !.reqAtTimeout = Len(requests)]
            /\ UNCHANGED returned
       ELSE /\ pc' = "pw_sleep"
            /\ UNCHANGED <<returned, outcome, ret, h>>
    /\ UNCHANGED <<args, clock, start_time, bearer_token, session_auth,
                   sdk_bound, closed, document_id, result, exit_code,
                   escaped, requests>>

\* process_and_wait: the completion check, then the failure check
PW_Inspect ==
    /\ pc = "pw_inspect"
    /\ IF IsComplete(result)
       THEN /\ returned' = result
            /\ outcome' = "completed"
            /\ pc' = "done"
            /\ UNCHANGED ret
       ELSE IF IsFailed(result)
       THEN Raise("failed") /\ UNCHANGED returned
       ELSE /\ pc' = "pw_sleep"
            /\ UNCHANGED <<returned, outcome, ret>>
    /\ UNCHANGED <<args, clock, start_time, bearer_token, session_auth,
                   sdk_bound, closed, document_id, result, exit_code,
                   escaped, requests, h>>

\* the loop goes back to the top without sleeping
PW_Sleep_skip ==
    /\ pc = "pw_sleep"
    /\ pc' = "pw_check"
    /\ UNCHANGED <<args, clock, start_time, bearer_token, session_auth,
                   sdk_bound, closed, document_id, result, returned, outcome,
                   ret, exit_code, escaped, requests, h>>

\* process_and_wait: time.sleep(poll_interval), back to the top
PW_Sleep ==
    /\ pc = "pw_sleep"
    /\ clock' = clock + SleepDuration(args.poll_interval)
    /\ h' = [h EXCEPT !.sleepLog = Append(@, clock' - clock)]
    /\ pc' = "pw_check"
    /\ UNCHANGED <<args, start_time, bearer_token, session_auth, sdk_bound,
                   closed, document_id, result, returned, outcome, ret,
                   exit_code, escaped, requests>>

\* main, top of the wait loop: the timeout check ("return 1" inside try)
CLI_CheckTimeout ==
    /\ pc = "cli_check"
    /\ IF CliTimedOut(clock, start_time, args.timeout)
       THEN /\ outcome' = "timedOut"
            /\ ret' = 1
            /\ pc' = "cli_finally"
            /\ h' = [h EXCEPT !.reqAtTimeout = Len(requests)]
       ELSE /\ pc' = "cli_fetch"
            /\ UNCHANGED <<outcome, ret, h>>
    /\ UNCHANGED <<args, clock, start_time, bearer_token, session_auth,
                   sdk_bound, closed, document_id, result, returned,
                   exit_code, escaped, requests>>

\* main: result = sdk.get_document_result(document_id)
CLI_Fetch ==
    /\ pc = "cli_fetch"
    /\ NumFetches < MaxFetches
    /\ \E resp \in FetchResponses :
        /\ GetDocumentResult(resp)
        /\ IF resp.kind = "ok"
           THEN pc' = "cli_inspect" /\ UNCHANGED <<outcome, ret>>
           ELSE Raise(ExcOf(resp))
    /\ UNCHANGED <<args, start_time, bearer_token, session_auth, sdk_bound,
                   closed, document_id, returned, exit_code, escaped>>

\* main: the completion check (print_result, break, return 0), then the
\* failure check (return 1)
CLI_Inspect ==
    /\ pc = "cli_inspect"
    /\ IF CliIsComplete(result)
       THEN /\ returned' = result
            /\ outcome' = "completed"
            /\ ret' = 0
            /\ pc' = "cli_finally"
       ELSE IF CliIsFailed(result)
       THEN /\ outcome' = "failed"
            /\ ret' = 1
            /\ pc' = "cli_finally"
            /\ UNCHANGED returned
       ELSE /\ pc' = "cli_sleep"
            /\ UNCHANGED <<returned, outcome, ret>>
    /\ UNCHANGED <<args, clock, start_time, bearer_token, session_auth,
                   sdk_bound, closed, document_id, result, exit_code,
                   escaped, requests, h>>

\* main: time.sleep(args.poll_interval), which Ctrl-C may interrupt
CLI_Sleep ==
    /\ pc = "cli_sleep"
    /\ \E interrupted \in BOOLEAN :
        IF interrupted
        THEN /\ Raise("KeyboardInterrupt")
             /\ h' = [h EXCEPT !.interrupted = TRUE]
             /\ UNCHANGED clock
        ELSE /\ clock' = clock + CliSleepDuration(args.poll_interval)
             /\ h' = [h EXCEPT !.sleepLog = Append(@, clock' - clock)]
             /\ pc' = "cli_check"
             /\ UNCHANGED <<outcome, ret>>
    /\ UNCHANGED <<args, start_time, bearer_token, session_auth, sdk_bound,
                   closed, document_id, result, returned, exit_code,
                   escaped, requests>>

\* main: finally: sdk.close(); the name sdk is unbound when the
\* constructor raised, and the NameError replaces the pending return
CLI_Finally ==
    /\ pc = "cli_finally"
    /\ IF sdk_bound
       THEN /\ closed' = TRUE
            /\ exit_code' = ret
            /\ UNCHANGED escaped
       ELSE /\ escaped' = "UnboundLocalError"
            /\ UNCHANGED <<closed, exit_code>>
    /\ pc' = "done"
    /\ UNCHANGED <<args, clock, start_time, bearer_token, session_auth,
                   sdk_bound, document_id, result, returned, outcome, ret,
                   requests, h>>

Next ==
    \/ CLI_Main
    \/ Construct
    \/ PW_Submit
    \/ CLI_Submit
    \/ PW_CheckTimeout
    \/ PW_Fetch
    \/ PW_Inspect
    \/ PW_Sleep
    \/ CLI_CheckTimeout
    \/ CLI_Fetch
    \/ CLI_Inspect
    \/ CLI_Sleep
    \/ CLI_Finally

Spec == Init /\ [][Next]_vars

\* a library caller: EkaCareSDK(...) then process_and_wait(path, "smart",
\* poll_interval, timeout) on an existing file (the task only shapes the
\* submit request; the loop does not read it)
InitSdk ==
    /\ Init
    /\ args.mode = "sdk"
    /\ args.task = "smart"
    /\ args.file_exists

NextSdk ==
    \/ Construct
    \/ PW_Submit
    \/ PW_CheckTimeout
    \/ PW_Fetch
    \/ PW_Inspect
    \/ PW_Sleep

\* every call returns or raises, and the interpreter keeps running
FairSpec == InitSdk /\ [][NextSdk]_vars /\ WF_vars(NextSdk)

TypeOK ==
    /\ pc \in {"main", "construct", "submit", "pw_check", "pw_fetch",
               "pw_inspect", "pw_sleep", "cli_check", "cli_fetch",
               "cli_inspect", "cli_sleep", "cli_finally", "done"}
    /\ exit_code \in {NoExit, 0, 1, 130}
    /\ result \in Payloads \cup {NoPayload}

\* ------------------------------------------------------------ properties
\* the polling loop has been entered (a document id was obtained and the
\* caller waits for the result)
LoopEntered == document_id # NoDoc /\ ~args.no_wait

\* process_document has been called and has returned or raised
Submitted == sdk_bound /\ pc # "submit"

AtInspect == pc \in {"pw_inspect", "cli_inspect"}

AllowedTasks == {"smart", "pii", "both"}

IsTaskParam(kv) == kv[1] = "task"

TaskValues(params) ==
    LET tp == SelectSeq(params, IsTaskParam) IN {tp[j][2] : j \in 1..Len(tp)}

NumTaskParams(params) == Len(SelectSeq(params, IsTaskParam))

\* C1: the polling loop (process_and_wait and the CLI wait loop) ends in
\* the completed outcome if and only if a fetched payload has both
\* data.fhir and data.output non-empty, whatever its status field is, and
\* the payload returned is the payload that was fetched.
Thm_C1 ==
    /\ outcome = "completed" =>
          /\ h.everComplete
          /\ BothNonEmpty(returned)
          /\ returned = h.wire
    /\ h.everComplete => (AtInspect \/ outcome = "completed")
    /\ (h.everComplete /\ AtInspect) => BothNonEmpty(h.wire)

Witness_C1 ==
    /\ outcome = "completed"
    /\ returned.status = "failed"
    /\ h.k >= 1

\* C2: a fetched payload with status "failed", no complete payload having
\* been fetched, ends the loop in the failed outcome at that fetch: the
\* failed payload is the last one fetched and no sleep follows it.
Thm_C2 ==
    (h.everFailed /\ ~h.everComplete) =>
        /\ AtInspect \/ outcome = "failed"
        /\ StatusFailed(h.wire)
        /\ NumFetches = h.k + 1
        /\ Len(h.sleepLog) = h.k

Witness_C2 ==
    /\ outcome = "failed"
    /\ h.k >= 1
    /\ h.wire.data.fhir = "full"

\* C3 (as stated): if no fetched payload is complete or failed within
\* timeout seconds of the loop's start, the loop ends in timedOut.  Read
\* with the benefit of the doubt: only runs in which every fetch returned
\* a payload and no interrupt was delivered are considered.
Orig_C3 ==
    (outcome # "none" /\ LoopEntered /\ ~h.inTime /\ ~h.fetchRaised
        /\ ~h.interrupted) => outcome = "timedOut"

\* C3 (amended): a loop in which every fetch returned a payload that was
\* neither complete nor failed can only end in timedOut; timedOut is
\* raised by the check at the top of an iteration, when the elapsed time
\* exceeds timeout, and no request is issued afterwards; a fetch is only
\* started while the elapsed time does not exceed timeout.
Thm_C3 ==
    /\ (outcome # "none" /\ LoopEntered /\ ~h.everComplete /\ ~h.everFailed
            /\ ~h.fetchRaised /\ ~h.interrupted) => outcome = "timedOut"
    /\ outcome = "timedOut" =>
          /\ clock - start_time > args.timeout
          /\ Len(requests) = h.reqAtTimeout
    /\ pc \in {"pw_fetch", "cli_fetch"} => clock - start_time <= args.timeout

Witness_C3 ==
    /\ outcome = "timedOut"
    /\ args.timeout >= 1
    /\ h.k >= 2

\* C4 (as stated): for every task outside {smart, pii, both} and every
\* file path, existing or not, process_document fails with the
\* validation error and no submit request has been issued.
Orig_C4 ==
    (Submitted /\ args.task \notin AllowedTasks) =>
        /\ outcome = "ValueError"
        /\ NumSubmits = 0

\* C4 (amended): for every task outside {smart, pii, both},
\* process_document fails with the validation error when the file exists
\* and with FileNotFoundError when it does not; in both cases no request
\* has been issued by it.
Thm_C4 ==
    (Submitted /\ args.task \notin AllowedTasks) =>
        /\ outcome = IF args.file_exists THEN "ValueError"
                     ELSE "FileNotFoundError"
        /\ NumSubmits = 0
        /\ Len(requests) = 1

Witness_C4 ==
    /\ Submitted
    /\ args.task = "full"
    /\ args.file_exists
    /\ outcome = "ValueError"

\* C5: a submit request for task "both" carries exactly two task
\* parameters, "smart" and "pii", and none with the value "both"; for
\* "smart" or "pii" it carries exactly one, equal to the requested value.
Thm_C5 ==
    \A i \in 1..Len(requests) :
        requests[i].kind = "submit" =>
            IF args.task = "both"
            THEN /\ NumTaskParams(requests[i].params) = 2
                 /\ TaskValues(requests[i].params) = {"smart", "pii"}
            ELSE /\ NumTaskParams(requests[i].params) = 1
                 /\ TaskValues(requests[i].params) = {args.task}

Witness_C5 ==
    /\ NumSubmits = 1
    /\ args.task = "both"

\* C6: no HTTP call is retried: at most one submit request and at most one
\* authentication request are issued; the first failing HTTP call is the
\* last request of the run and ends it with that error; every fetch after
\* the first follows a fetch that returned a payload neither complete nor
\* failed.
Thm_C6 ==
    /\ NumSubmits <= 1
    /\ NumAuths <= 1
    /\ h.httpFailedAt # -1 =>
          /\ Len(requests) = h.httpFailedAt
          /\ outcome = IF requests[Len(requests)].kind = "auth"
                       THEN "AuthenticationError" ELSE "TransportError"
    /\ NumFetches <= h.k + 1

Witness_C6 ==
    /\ h.httpFailedAt # -1
    /\ NumFetches >= 2
    /\ outcome = "TransportError"

\* C7: authentication happens once, as the first request, and carries no
\* bearer credential; when it fails (the call fails or the response has
\* no token) the client does not exist and no further request is issued;
\* when it succeeds every submit and fetch request carries the token the
\* server issued, which is the token the client keeps.
Thm_C7 ==
    /\ NumAuths <= 1
    /\ sdk_bound => NumAuths = 1
    /\ \A i \in 1..Len(requests) :
          IF requests[i].kind = "auth"
          THEN i = 1 /\ requests[i].auth = NoToken
          ELSE /\ i > 1
               /\ h.issued \in Tokens
               /\ requests[i].auth = h.issued
    /\ (requests # <<>> /\ h.issued = NoToken) =>
          /\ outcome \in {"AuthenticationError", "KeyboardInterrupt"}
          /\ ~sdk_bound
          /\ bearer_token = NoToken
          /\ Len(requests) = 1
    /\ h.issued # NoToken =>
          /\ sdk_bound
          /\ bearer_token = h.issued
          /\ session_auth = h.issued

Witness_C7 ==
    /\ NumFetches >= 2
    /\ h.issued = "tokB"
    /\ requests[Len(requests)].auth = "tokB"

Witness_C7_failed ==
    /\ outcome = "AuthenticationError"
    /\ Len(requests) = 1

\* the exit code the CLI contract assigns to the way the run ended
ExpectedExit ==
    IF h.interrupted THEN 130
    ELSE IF outcome \in {"completed", "submitted"} THEN 0
    ELSE 1

\* C8: main returns 0 on success, 1 on every handled error (an
\* authentication failure during construction included) and 130 on
\* KeyboardInterrupt from construction onward, and no exception escapes.
Orig_C8 ==
    (args.mode = "cli" /\ pc = "done") =>
        /\ escaped = "none"
        /\ exit_code = ExpectedExit

\* C9: when the first k fetches return a payload neither complete nor
\* failed and fetch k+1 returns a complete one, process_and_wait has
\* issued one submit, k+1 fetches and k sleeps of poll_interval, and
\* returns payload k+1.
Thm_C9 ==
    (args.mode = "sdk" /\ outcome = "completed") =>
        /\ NumSubmits = 1
        /\ NumFetches = h.k + 1
        /\ h.sleepLog = [i \in 1..h.k |-> args.poll_interval]
        /\ returned = h.wire
        /\ BothNonEmpty(returned)

Witness_C9 ==
    /\ args.mode = "sdk"
    /\ outcome = "completed"
    /\ h.k = 1
    /\ args.poll_interval = 1
    /\ h.sleepLog = <<1>>

\* the run left the case "every fetch returns a payload neither complete
\* nor failed": it ended before or outside the loop, or a fetch raised or
\* returned a terminal payload
Deviated ==
    \/ outcome \notin {"none", "timedOut"}
    \/ h.everComplete
    \/ h.everFailed
    \/ h.fetchRaised

\* the calls C10 speaks of
C10Case == args.mode = "sdk" /\ args.poll_interval > 0 /\ args.timeout >= 0

\* timeout / poll_interval + 1
FetchBound ==
    IF args.poll_interval > 0
    THEN (args.timeout \div args.poll_interval) + 1
    ELSE MaxFetches

\* C10: with timeout >= 0 and poll_interval > 0, process_and_wait never
\* issues more than timeout / poll_interval + 1 fetches, and when every
\* fetch returns a payload neither complete nor failed it eventually
\* raises TimeoutError.
Live_C10 ==
    /\ [](C10Case => NumFetches <= FetchBound)
    /\ <>(~C10Case \/ Deviated \/ outcome = "timedOut")

Witness_C10 ==
    /\ args.mode = "sdk"
    /\ args.timeout = 1
    /\ args.poll_interval = 1
    /\ outcome = "timedOut"
    /\ ~Deviated
    /\ NumFetches = 2

AtCheck == pc \in {"pw_check", "cli_check"}
AtFetch == pc \in {"pw_fetch", "cli_fetch"}
AtSleep == pc \in {"pw_sleep", "cli_sleep"}

\* the payload fetched last is neither complete nor failed
NonTerminal(p) == ~BothNonEmpty(p) /\ ~StatusFailed(p)

\* C11 (as stated): the timeout is tested after the fetch, the completion
\* check and the failure check of the same iteration, so a fetch is made
\* in every iteration, the one that times out included: at a timeout the
\* fetches outnumber the sleeps by one and the payload fetched last was
\* found neither complete nor failed.
Orig_C11 ==
    outcome = "timedOut" =>
        /\ NumFetches = Len(h.sleepLog) + 1
        /\ NonTerminal(h.wire)

\* C11 (amended): in every iteration the order is: elapsed time >
\* timeout, then fetch, then completion, then status "failed", then
\* sleep.  The timeout is raised at the top of an iteration, before its
\* fetch: the iteration that times out makes no fetch, and every earlier
\* iteration fetched a payload neither complete nor failed and slept.
Thm_C11 ==
    /\ AtCheck => NumFetches = Len(h.sleepLog)
    /\ AtFetch =>
          /\ NumFetches = Len(h.sleepLog)
          /\ clock - start_time <= args.timeout
    /\ AtInspect => NumFetches = Len(h.sleepLog) + 1
    /\ AtSleep =>
          /\ NumFetches = Len(h.sleepLog) + 1
          /\ NonTerminal(h.wire)
    /\ outcome = "failed" => ~BothNonEmpty(h.wire)
    /\ outcome = "timedOut" =>
          /\ NumFetches = Len(h.sleepLog)
          /\ NumFetches = h.k
          /\ NumFetches > 0 => NonTerminal(h.wire)

Witness_C11 ==
    /\ outcome = "timedOut"
    /\ NumFetches = 2
    /\ Len(h.sleepLog) = 2

\* the position in the polling loop, whichever loop it is
LoopPos ==
    IF AtCheck THEN "check"
    ELSE IF AtFetch THEN "fetch"
    ELSE IF AtInspect THEN "inspect"
    ELSE IF AtSleep THEN "sleep"
    ELSE "out"

\* the loop has been left
LoopLeft == pc \in {"done", "cli_finally"}

\* the GET for the document's result, with the session's credentials
FetchRequest ==
    [kind |-> "fetch", auth |-> h.issued, params |-> <<>>, doc |-> document_id]

\* One step of the polling algorithm, written once for both loops.  Given
\* timeout, poll interval, the clock and what the environment delivers
\* (the payload or the failure of the fetch, an interrupt), the step fixes
\* the next position, the terminal outcome, the payload returned, the
\* requests issued and the sleeps made.
LoopStep ==
    /\ LoopPos # "out" => start_time' = start_time /\ document_id' = document_id
    /\ CASE LoopPos = "check" ->
              /\ clock' = clock
              /\ requests' = requests
              /\ h'.sleepLog = h.sleepLog
              /\ returned' = returned
              /\ IF clock - start_time > args.timeout
                 THEN LoopLeft' /\ outcome' = "timedOut"
                 ELSE LoopPos' = "fetch" /\ outcome' = "none"
         [] LoopPos = "fetch" ->
              /\ requests' = Append(requests, FetchRequest)
              /\ h'.sleepLog = h.sleepLog
              /\ returned' = returned
              /\ IF h'.fetchRaised
                 THEN /\ LoopLeft'
                      /\ outcome' = IF h'.interrupted THEN "KeyboardInterrupt"
                                    ELSE "TransportError"
                 ELSE /\ LoopPos' = "inspect"
                      /\ result' = h'.wire
                      /\ outcome' = "none"
         [] LoopPos = "inspect" ->
              /\ clock' = clock
              /\ requests' = requests
              /\ h'.sleepLog = h.sleepLog
              /\ IF BothNonEmpty(result)
                 THEN LoopLeft' /\ outcome' = "completed" /\ returned' = result
                 ELSE IF StatusFailed(result)
                 THEN LoopLeft' /\ outcome' = "failed" /\ returned' = returned
                 ELSE LoopPos' = "sleep" /\ outcome' = "none"
                      /\ returned' = returned
         [] LoopPos = "sleep" ->
              /\ requests' = requests
              /\ returned' = returned
              /\ IF h'.interrupted
                 THEN LoopLeft' /\ outcome' = "KeyboardInterrupt"
                 ELSE /\ LoopPos' = "check"
                      /\ clock' = clock + args.poll_interval
                      /\ h'.sleepLog = Append(h.sleepLog, args.poll_interval)
                      /\ outcome' = "none"
         [] OTHER -> TRUE

\* main maps the loop's outcome to its exit code
ExitMapped ==
    (args.mode = "cli" /\ pc = "done" /\ LoopEntered) =>
        /\ outcome = "completed" => exit_code = 0 /\ escaped = "none"
        /\ outcome \in {"failed", "timedOut", "TransportError"} =>
              exit_code = 1 /\ escaped = "none"

\* C12: the CLI wait loop and the process_and_wait loop are the same
\* algorithm: every step of either loop is a step of the one polling
\* algorithm LoopStep, so that for the same timeout, poll interval, clock
\* readings and responses they issue the same fetches and sleeps and end
\* the same way; main maps completed to exit 0 and failed, timed out and
\* a transport error to exit 1.
Thm_C12 == [][LoopStep /\ ExitMapped']_vars

Witness_C12 ==
    /\ args.mode = "cli"
    /\ pc = "done"
    /\ outcome = "completed"
    /\ exit_code = 0
    /\ NumFetches = 2
    /\ h.sleepLog = <<2>>


====
